---- MODULE Spec2Model ----
(***************************************************************************)
(* The Universal Machine interpreter of src/src/um.rs, driven by the host  *)
(* of src/src/main.rs.                                                      *)
(*                                                                          *)
(* A Plate is a u32.  TLC's integers are 32-bit signed, so a plate is kept  *)
(* as the pair <<hi, lo>> of its two 16-bit halves (value hi * 2^16 + lo)   *)
(* and all arithmetic is carried out on the halves, modulo 2^32.            *)
(***************************************************************************)
EXTENDS Integers, Sequences, FiniteSets, TLC

VARIABLES registers, ip, next_array_id, arrays, store, is_halted,
          input, output, panicked,
          pc, step, max_steps, overflow_checks,
          last, calls, um0, program_bytes, written, allocated

vars == <<registers, ip, next_array_id, arrays, store, is_halted,
          input, output, panicked,
          pc, step, max_steps, overflow_checks, last, calls, um0,
          program_bytes, written, allocated>>

-----------------------------------------------------------------------------
(* Plates: pub type Plate = u32 *)

W16 == 65536

Plate == (0 .. W16 - 1) \X (0 .. W16 - 1)

FromNat(n) == <<n \div W16, n % W16>>

Zero == <<0, 0>>

\* u32::max_value()
U32Max == <<W16 - 1, W16 - 1>>

PlateLT(a, b) == a[1] < b[1] \/ (a[1] = b[1] /\ a[2] < b[2])

\* u32::wrapping_add
wrapping_add(a, b) ==
    LET lo == a[2] + b[2]
        hi == a[1] + b[1] + (lo \div W16)
    IN  <<hi % W16, lo % W16>>

\* x * y for 16-bit x, y, as the pair of its halves
MulHalf(x, y) ==
    LET p0 == (x % 256) * y
        p1 == (x \div 256) * y
        t  == p0 + (p1 % 256) * 256
    IN  <<(t \div W16) + (p1 \div 256), t % W16>>

\* u32::wrapping_mul
wrapping_mul(a, b) ==
    LET ll == MulHalf(a[2], b[2])
        hl == MulHalf(a[1], b[2])
        lh == MulHalf(a[2], b[1])
    IN  <<(ll[1] + hl[2] + lh[2]) % W16, ll[2]>>

\* a - b modulo 2^32
wrapping_sub(a, b) ==
    LET borrow == IF a[2] < b[2] THEN 1 ELSE 0
    IN  <<(a[1] - b[1] - borrow + W16) % W16, (a[2] - b[2] + W16) % W16>>

\* q * b for q up to 2^16 + 2, as three 16-bit limbs, most significant first
MulWide(q, b) ==
    LET lo  == MulHalf(q, b[2])
        hi  == MulHalf(q, b[1])
        mid == lo[1] + hi[2]
    IN  <<hi[1] + (mid \div W16), mid % W16, lo[2]>>

\* q * b <= a
TimesFits(q, b, a) ==
    LET w == MulWide(q, b)
    IN  w[1] = 0 /\ ~PlateLT(a, <<w[2], w[3]>>)

\* a / d for a divisor d below 2^16: short division, the low half a byte at a time
DivShort(a, d) ==
    LET r1 == a[1] % d
        t1 == r1 * 256 + (a[2] \div 256)
        t2 == (t1 % d) * 256 + (a[2] % 256)
    IN  <<a[1] \div d, (t1 \div d) * 256 + (t2 \div d)>>

\* a / b for a divisor of 2^16 or more: the quotient is below 2^16 and within 2
\* of (a / 2) / (b / 2), which fits TLC's integers
DivLong(a, b) ==
    LET est == (a[1] * (W16 \div 2) + (a[2] \div 2)) \div (b[1] * (W16 \div 2) + (b[2] \div 2))
        lo  == IF est < 2 THEN 0 ELSE est - 2
        q   == CHOOSE c \in lo .. est + 2 : TimesFits(c, b, a) /\ ~TimesFits(c + 1, b, a)
    IN  <<0, q>>

\* <u32 as Div>::div for a nonzero divisor (a zero divisor panics)
div(a, b) == IF b[1] = 0 THEN DivShort(a, b[2]) ELSE DivLong(a, b)

\* x & y for x, y below 16
AndNibble(x, y) ==
    (x % 2) * (y % 2)
    + 2 * (((x \div 2) % 2) * ((y \div 2) % 2))
    + 4 * (((x \div 4) % 2) * ((y \div 4) % 2))
    + 8 * ((x \div 8) * (y \div 8))

\* x & y for 16-bit x, y
AndHalf(x, y) ==
    AndNibble(x % 16, y % 16)
    + 16 * AndNibble((x \div 16) % 16, (y \div 16) % 16)
    + 256 * AndNibble((x \div 256) % 16, (y \div 256) % 16)
    + 4096 * AndNibble(x \div 4096, y \div 4096)

\* <u32 as BitAnd>::bitand
bitand(a, b) == <<AndHalf(a[1], b[1]), AndHalf(a[2], b[2])>>

\* <u32 as Not>::not
not(a) == <<W16 - 1 - a[1], W16 - 1 - a[2]>>

-----------------------------------------------------------------------------
(* Command::decode *)

RegId == 0 .. 7

\* decode_registers_standard as it would be with the three fields in the
\* opposite order
decode_registers_reversed(p) ==
    LET a == p[2] % 8
        b == (p[2] \div 8) % 8
        c == (p[2] \div 64) % 8
    IN  <<a, b, c>>

decode_registers_standard(p) ==
    LET c == p[2] % 8
        b == (p[2] \div 8) % 8
        a == (p[2] \div 64) % 8
    IN  <<a, b, c>>

decode_special(p) ==
    LET a == (p[1] \div 512) % 8
        v == <<p[1] % 512, p[2]>>
    IN  <<a, v>>

decode_command_id(p) == (p[1] \div 4096) % 16

\* The command of platter p; op "Unreachable" stands for the unreachable!()
\* arm, which panics.
decode(p) ==
    LET id == decode_command_id(p)
        r  == decode_registers_standard(p)
        a  == r[1]
        b  == r[2]
        c  == r[3]
        s  == decode_special(p)
    IN  CASE id = 0  -> [op |-> "CondMove", src |-> b, dst |-> a, cnd |-> c]
          [] id = 1  -> [op |-> "ArrLoad", dst |-> a, arr |-> b, offset |-> c]
          [] id = 2  -> [op |-> "ArrStore", src |-> c, arr |-> a, offset |-> b]
          [] id = 3  -> [op |-> "Add", dst |-> a, op1 |-> b, op2 |-> c]
          [] id = 4  -> [op |-> "Mul", dst |-> a, op1 |-> b, op2 |-> c]
          [] id = 5  -> [op |-> "Div", dst |-> a, op1 |-> b, op2 |-> c]
          [] id = 6  -> [op |-> "NotAnd", dst |-> a, op1 |-> b, op2 |-> c]
          [] id = 7  -> [op |-> "Halt"]
          [] id = 8  -> [op |-> "Alloc", dst |-> b, size |-> c]
          [] id = 9  -> [op |-> "Free", arr |-> c]
          [] id = 10 -> [op |-> "Output", src |-> c]
          [] id = 11 -> [op |-> "Input", dst |-> c]
          [] id = 12 -> [op |-> "LoadProg", arr |-> b, offset |-> c]
          [] id = 13 -> [op |-> "StoreConst", dst |-> s[1], val |-> s[2]]
          [] OTHER   -> [op |-> "Unreachable"]

-----------------------------------------------------------------------------
(* The machine: struct UniversalMachine.  arrays maps an id to an Rc<[Plate]>;  *)
(* an Rc is a handle into store, and its strong count is the number of ids      *)
(* that hold the handle.  input is what the host can still deliver (the         *)
(* pre-seeded buffer followed by stdin), output what it has written.            *)

UM == [registers |-> registers, ip |-> ip, next_array_id |-> next_array_id,
       arrays |-> arrays, store |-> store, is_halted |-> is_halted,
       input |-> input, output |-> output, panicked |-> panicked]

\* A panic unwinds out of run: the machine is left as it was and runs no more.
Panic(m) == [m EXCEPT !.panicked = TRUE]

\* Rc::strong_count of handle h
StrongCount(m, h) == Cardinality({k \in DOMAIN m.arrays : m.arrays[k] = h})

\* The platters of array id
Contents(m, id) == m.store[m.arrays[id]]

\* A buffer is freed when its last Rc is dropped.
Collect(arrs, st) ==
    [h \in {arrs[k] : k \in DOMAIN arrs} |-> st[h]]

\* A fresh heap allocation
NewHandle(st) ==
    CHOOSE h \in 0 .. Cardinality(DOMAIN st) :
        h \notin DOMAIN st /\ \A g \in 0 .. h - 1 : g \in DOMAIN st

\* HashMap::insert(id, Rc) of a handle that store already holds
Insert(arrs, id, h) ==
    [k \in DOMAIN arrs \cup {id} |-> IF k = id THEN h ELSE arrs[k]]

\* p as usize, used as an index of a slice s: in bounds or a panic
InBounds(p, s) == p[1] = 0 /\ p[2] < Len(s)

At(s, p) == s[p[2] + 1]

\* UMIO::request_input: the next byte, or a panic when read_exact meets the
\* end of the stream (unwrap of an Err).
request_input(inp) ==
    IF inp = <<>> THEN [ok |-> FALSE, byte |-> 0, rest |-> inp]
    ELSE [ok |-> TRUE, byte |-> Head(inp), rest |-> Tail(inp)]

\* UMIO::request_output
request_output(out, ch) == Append(out, ch)

\* src as u8
AsU8(p) == p[2] % 256

CondMove(m, c) ==
    IF m.registers[c.cnd] # Zero
    THEN [m EXCEPT !.registers[c.dst] = m.registers[c.src]]
    ELSE m

ArrLoad(m, c) ==
    LET arr    == m.registers[c.arr]
        offset == m.registers[c.offset]
    IN  IF arr \notin DOMAIN m.arrays THEN Panic(m)
        ELSE IF ~InBounds(offset, Contents(m, arr)) THEN Panic(m)
        ELSE [m EXCEPT !.registers[c.dst] = At(Contents(m, arr), offset)]

\* ArrStore as it would be if the copy of a shared buffer ended at the offset
\* written
ArrStoreShortCopy(m, c) ==
    LET arr    == m.registers[c.arr]
        offset == m.registers[c.offset]
    IN  IF arr \notin DOMAIN m.arrays THEN Panic(m)
        ELSE LET v == m.arrays[arr]
             IN  IF ~InBounds(offset, m.store[v]) THEN Panic(m)
                 ELSE IF StrongCount(m, v) = 1
                 THEN [m EXCEPT !.store[v][offset[2] + 1] = m.registers[c.src]]
                 ELSE LET new_v == [SubSeq(m.store[v], 1, offset[2] + 1) EXCEPT
                                       ![offset[2] + 1] = m.registers[c.src]]
                          h     == NewHandle(m.store)
                          st    == [g \in DOMAIN m.store \cup {h} |->
                                       IF g = h THEN new_v ELSE m.store[g]]
                          arrs  == Insert(m.arrays, arr, h)
                      IN  [m EXCEPT !.arrays = arrs, !.store = Collect(arrs, st)]

\* ArrStore as it would be if a write past the end were dropped
ArrStoreLenient(m, c) ==
    LET arr    == m.registers[c.arr]
        offset == m.registers[c.offset]
    IN  IF arr \notin DOMAIN m.arrays THEN Panic(m)
        ELSE IF ~InBounds(offset, Contents(m, arr)) THEN m
        ELSE LET v == m.arrays[arr]
             IN  IF StrongCount(m, v) = 1
                 THEN [m EXCEPT !.store[v][offset[2] + 1] = m.registers[c.src]]
                 ELSE LET new_v == [m.store[v] EXCEPT
                                       ![offset[2] + 1] = m.registers[c.src]]
                          h     == NewHandle(m.store)
                          st    == [g \in DOMAIN m.store \cup {h} |->
                                       IF g = h THEN new_v ELSE m.store[g]]
                          arrs  == Insert(m.arrays, arr, h)
                      IN  [m EXCEPT !.arrays = arrs, !.store = Collect(arrs, st)]

\* ArrStore as it would be without the Rc::get_mut test: the write always goes
\* to the buffer the id holds, shared or not.
ArrStoreInPlace(m, c) ==
    LET arr    == m.registers[c.arr]
        offset == m.registers[c.offset]
    IN  IF arr \notin DOMAIN m.arrays THEN Panic(m)
        ELSE IF ~InBounds(offset, Contents(m, arr)) THEN Panic(m)
        ELSE [m EXCEPT !.store[m.arrays[arr]][offset[2] + 1] = m.registers[c.src]]

ArrStore(m, c) ==
    LET arr    == m.registers[c.arr]
        offset == m.registers[c.offset]
    IN  IF arr \notin DOMAIN m.arrays THEN Panic(m)
        ELSE LET v == m.arrays[arr]
             IN  IF ~InBounds(offset, m.store[v]) THEN Panic(m)
                 ELSE IF StrongCount(m, v) = 1
                 THEN \* Rc::get_mut is Some: write in place
                      [m EXCEPT !.store[v][offset[2] + 1] = m.registers[c.src]]
                 ELSE \* shared: to_vec, write, replace this id's Rc
                      LET new_v == [m.store[v] EXCEPT
                                       ![offset[2] + 1] = m.registers[c.src]]
                          h     == NewHandle(m.store)
                          st    == [g \in DOMAIN m.store \cup {h} |->
                                       IF g = h THEN new_v ELSE m.store[g]]
                          arrs  == Insert(m.arrays, arr, h)
                      IN  [m EXCEPT !.arrays = arrs, !.store = Collect(arrs, st)]

\* Add as it would be with the checked + of a build with overflow checks
AddChecked(m, c) ==
    IF wrapping_add(m.registers[c.op1], m.registers[c.op2]) # m.registers[c.op1]
       /\ PlateLT(wrapping_add(m.registers[c.op1], m.registers[c.op2]), m.registers[c.op1])
    THEN Panic(m)
    ELSE [m EXCEPT !.registers[c.dst] =
             wrapping_add(m.registers[c.op1], m.registers[c.op2])]

Add(m, c) ==
    [m EXCEPT !.registers[c.dst] =
        wrapping_add(m.registers[c.op1], m.registers[c.op2])]

Mul(m, c) ==
    [m EXCEPT !.registers[c.dst] =
        wrapping_mul(m.registers[c.op1], m.registers[c.op2])]

\* Div as it would be if a zero divisor ended the run like a Halt
DivHaltsOnZero(m, c) ==
    IF m.registers[c.op2] = Zero THEN [m EXCEPT !.is_halted = TRUE]
    ELSE [m EXCEPT !.registers[c.dst] =
             div(m.registers[c.op1], m.registers[c.op2])]

Div(m, c) ==
    IF m.registers[c.op2] = Zero THEN Panic(m)
    ELSE [m EXCEPT !.registers[c.dst] =
             div(m.registers[c.op1], m.registers[c.op2])]

NotAnd(m, c) ==
    [m EXCEPT !.registers[c.dst] =
        not(bitand(m.registers[c.op1], m.registers[c.op2]))]

Halt(m, c) == [m EXCEPT !.is_halted = TRUE]

\* Alloc as it would be with the size register read after the id is written
AllocReadsSizeLast(m, c) ==
    LET next_id == m.next_array_id
        size    == IF c.size = c.dst THEN next_id ELSE m.registers[c.size]
    IN  IF next_id = U32Max /\ overflow_checks THEN Panic(m)
        ELSE LET h    == NewHandle(m.store)
                 st   == [g \in DOMAIN m.store \cup {h} |->
                             IF g = h THEN [i \in 1 .. size[2] |-> Zero]
                                      ELSE m.store[g]]
                 arrs == Insert(m.arrays, next_id, h)
             IN  [m EXCEPT !.next_array_id = wrapping_add(next_id, FromNat(1)),
                           !.arrays = arrs,
                           !.store = Collect(arrs, st),
                           !.registers[c.dst] = next_id]

\* next_array_id += 1 on a u32: at u32::MAX a build with overflow checks
\* panics there, a build without them wraps to 0.
Alloc(m, c) ==
    LET next_id == m.next_array_id
        size    == m.registers[c.size]
    IN  IF next_id = U32Max /\ overflow_checks THEN Panic(m)
        ELSE LET h    == NewHandle(m.store)
                 st   == [g \in DOMAIN m.store \cup {h} |->
                             IF g = h THEN [i \in 1 .. size[2] |-> Zero]
                                      ELSE m.store[g]]
                 arrs == Insert(m.arrays, next_id, h)
             IN  [m EXCEPT !.next_array_id = wrapping_add(next_id, FromNat(1)),
                           !.arrays = arrs,
                           !.store = Collect(arrs, st),
                           !.registers[c.dst] = next_id]

Free(m, c) ==
    LET arr  == m.registers[c.arr]
        arrs == [k \in DOMAIN m.arrays \ {arr} |-> m.arrays[k]]
    IN  [m EXCEPT !.arrays = arrs, !.store = Collect(arrs, m.store)]

Output(m, c) ==
    [m EXCEPT !.output = request_output(m.output, AsU8(m.registers[c.src]))]

Input(m, c) ==
    LET r == request_input(m.input)
    IN  IF ~r.ok THEN Panic(m)
        ELSE [m EXCEPT !.registers[c.dst] = FromNat(r.byte), !.input = r.rest]

\* LoadProg as it would be without self.ip = offset
LoadProgNoJump(m, c) ==
    LET arr == m.registers[c.arr]
    IN  IF arr \notin DOMAIN m.arrays THEN Panic(m)
        ELSE LET arrs == Insert(m.arrays, Zero, m.arrays[arr])
             IN  [m EXCEPT !.arrays = arrs, !.store = Collect(arrs, m.store)]

LoadProg(m, c) ==
    LET arr    == m.registers[c.arr]
        offset == m.registers[c.offset]
    IN  IF arr \notin DOMAIN m.arrays THEN Panic(m)
        ELSE LET arrs == Insert(m.arrays, Zero, m.arrays[arr])
             IN  [m EXCEPT !.arrays = arrs,
                           !.store = Collect(arrs, m.store),
                           !.ip = offset]

StoreConst(m, c) == [m EXCEPT !.registers[c.dst] = c.val]

perform_command(m, c) ==
    CASE c.op = "CondMove"   -> CondMove(m, c)
      [] c.op = "ArrLoad"    -> ArrLoad(m, c)
      [] c.op = "ArrStore"   -> ArrStore(m, c)
      [] c.op = "Add"        -> Add(m, c)
      [] c.op = "Mul"        -> Mul(m, c)
      [] c.op = "Div"        -> Div(m, c)
      [] c.op = "NotAnd"     -> NotAnd(m, c)
      [] c.op = "Halt"       -> Halt(m, c)
      [] c.op = "Alloc"      -> Alloc(m, c)
      [] c.op = "Free"       -> Free(m, c)
      [] c.op = "Output"     -> Output(m, c)
      [] c.op = "Input"      -> Input(m, c)
      [] c.op = "LoadProg"   -> LoadProg(m, c)
      [] c.op = "StoreConst" -> StoreConst(m, c)

-----------------------------------------------------------------------------
(* UniversalMachine::run *)

\* self.arrays[&0][self.ip] is there to fetch
CanFetch(m) == Zero \in DOMAIN m.arrays /\ InBounds(m.ip, Contents(m, Zero))

\* The fetch as it would be if the platters were decoded once, when the scroll
\* was loaded by new, and never again
FetchedOnceDecoded(m) ==
    IF InBounds(m.ip, Contents(um0, Zero)) THEN decode(At(Contents(um0, Zero), m.ip))
    ELSE [op |-> "Unreachable"]

\* The command the next iteration decodes
Fetched(m) ==
    IF CanFetch(m) THEN decode(At(Contents(m, Zero), m.ip))
    ELSE [op |-> "Unreachable"]

\* The loop body as it would be with the post-increment after LoadProg as well
IterationAlwaysIncrements(m) ==
    IF ~CanFetch(m) THEN Panic(m)
    ELSE LET command == Fetched(m)
         IN  IF command.op = "Unreachable" THEN Panic(m)
             ELSE LET m1 == perform_command(m, command)
                  IN  IF m1.panicked THEN m1
                      ELSE [m1 EXCEPT !.ip = wrapping_add(m1.ip, FromNat(1))]

\* The loop body: fetch, decode, perform_command, and the post-increment of ip
\* for every command but LoadProg.
Iteration(m) ==
    IF ~CanFetch(m) THEN Panic(m)
    ELSE LET command == Fetched(m)
         IN  IF command.op = "Unreachable" THEN Panic(m)
             ELSE LET m1 == perform_command(m, command)
                  IN  IF m1.panicked THEN m1
                      ELSE IF command.op = "LoadProg" THEN m1
                      ELSE [m1 EXCEPT !.ip = wrapping_add(m1.ip, FromNat(1))]

\* The loop condition with step <= max_steps
LoopCondInclusive(halted, s, max) == ~halted /\ ~PlateLT(max, s)

\* The loop condition without the test of is_halted
LoopCondIgnoresHalt(halted, s, max) == PlateLT(s, max)

\* while !self.is_halted && step < max_steps
LoopCond(halted, s, max) == ~halted /\ PlateLT(s, max)

\* max_steps.unwrap_or(u32::max_value())
unwrap_or_max(ms) == IF ms.some THEN ms.val ELSE U32Max

Some(n) == [some |-> TRUE, val |-> FromNat(n)]

None == [some |-> FALSE, val |-> Zero]

\* run(max_steps) as a function of the machine
RECURSIVE RunLoop(_, _, _)
RunLoop(m, s, max) ==
    IF ~m.panicked /\ LoopCond(m.is_halted, s, max)
    THEN RunLoop(Iteration(m), wrapping_add(s, FromNat(1)), max)
    ELSE m

run(m, ms) == RunLoop(m, Zero, unwrap_or_max(ms))

-----------------------------------------------------------------------------
(* UniversalMachine::new *)

\* <[u8]>::chunks(4)
chunks(bytes) ==
    [i \in 1 .. (Len(bytes) + 3) \div 4 |->
        SubSeq(bytes, 4 * i - 3, IF 4 * i < Len(bytes) THEN 4 * i ELSE Len(bytes))]

\* plate_from_bytes as it would be with Plate::from_le_bytes
plate_from_le_bytes(ch) ==
    IF Len(ch) # 4 THEN [some |-> FALSE, val |-> Zero]
    ELSE [some |-> TRUE, val |-> <<ch[4] * 256 + ch[3], ch[2] * 256 + ch[1]>>]

\* None unless the chunk has four bytes; else the big-endian plate
plate_from_bytes(ch) ==
    IF Len(ch) # 4 THEN [some |-> FALSE, val |-> Zero]
    ELSE [some |-> TRUE, val |-> <<ch[1] * 256 + ch[2], ch[3] * 256 + ch[4]>>]

\* The machine new(program, io) builds, io holding inp; None when a chunk is short
new(program, inp) ==
    LET plates == [i \in DOMAIN chunks(program) |-> plate_from_bytes(chunks(program)[i])]
    IN  IF \E i \in DOMAIN plates : ~plates[i].some
        THEN [some |-> FALSE]
        ELSE [some |-> TRUE,
              val  |-> [registers     |-> [r \in RegId |-> Zero],
                        ip            |-> Zero,
                        next_array_id |-> FromNat(1),
                        arrays        |-> [k \in {Zero} |-> 0],
                        store         |-> [h \in {0} |-> [i \in DOMAIN plates |-> plates[i].val]],
                        is_halted     |-> FALSE,
                        input         |-> inp,
                        output        |-> <<>>,
                        panicked      |-> FALSE]]

-----------------------------------------------------------------------------
(* Scrolls and host input the machine is run on *)

\* A standard-form platter and an Orthography platter
Std(op, a, b, c) == <<op * 4096, a * 64 + b * 8 + c>>

Ortho(a, v) == <<13 * 4096 + a * 512 + v \div W16, v % W16>>

\* Plate::to_be_bytes, and a scroll's byte stream
to_be_bytes(p) == <<p[1] \div 256, p[1] % 256, p[2] \div 256, p[2] % 256>>

RECURSIVE ScrollBytes(_)
ScrollBytes(ps) ==
    IF ps = <<>> THEN <<>> ELSE to_be_bytes(Head(ps)) \o ScrollBytes(Tail(ps))

\* Copy array 0's platters at offsets from .. from + n - 1 to the same offsets
\* of the array whose id is in R2 (R0 = 0, R3 and R4 scratch).
RECURSIVE CopyCode(_, _)
CopyCode(from, n) ==
    IF n = 0 THEN <<>>
    ELSE <<Ortho(3, from), Std(1, 4, 0, 3), Std(2, 2, 3, 4)>> \o CopyCode(from + 1, n - 1)

\* A scroll that allocates an array as long as itself, copies tail into it at
\* the tail's own offsets, and loads it as the program, resuming at the tail.
Reload(tail) ==
    LET start == 3 * Len(tail) + 4
    IN  <<Ortho(1, start + Len(tail)), Std(8, 0, 2, 1)>>
        \o CopyCode(start, Len(tail))
        \o <<Ortho(3, start), Std(12, 0, 2, 3)>>
        \o tail

ScrollHalt == <<Std(7, 0, 0, 0)>>

ScrollHello == <<Ortho(0, 72), Std(10, 0, 0, 0), Ortho(0, 105), Std(10, 0, 0, 0),
                 Std(7, 0, 0, 0)>>

\* Output of 321 = 0x141
ScrollOutBig == <<Ortho(0, 321), Std(10, 0, 0, 0), Std(7, 0, 0, 0)>>

ScrollEcho == <<Std(11, 0, 0, 1), Std(10, 0, 0, 1), Std(11, 0, 0, 2), Std(7, 0, 0, 0)>>

\* LoadProg with R[B] = 0 used as a jump over the Output
ScrollJump == <<Ortho(1, 3), Std(12, 0, 0, 1), Std(10, 0, 0, 1), Std(7, 0, 0, 0)>>

\* LoadProg 0, offset 0 at offset 0: never halts
ScrollSpin == <<Std(12, 0, 0, 0)>>

ScrollFreeZero == <<Std(9, 0, 0, 0), Std(7, 0, 0, 0)>>

ScrollFreeUnknown == <<Ortho(1, 5), Std(9, 0, 0, 1), Std(7, 0, 0, 0)>>

ScrollAlloc == <<Ortho(1, 2), Std(8, 0, 2, 1), Std(8, 0, 3, 1), Std(9, 0, 0, 2),
                 Std(8, 0, 4, 0), Std(7, 0, 0, 0)>>

\* R1 = !0 = 0xFFFFFFFF, R3 = R1 + 1, R4 = R1 * R2, R5 = R1 / R2, then 1 / 0
ScrollArith == <<Std(6, 1, 0, 0), Ortho(2, 1), Std(3, 3, 1, 2), Ortho(2, 3),
                 Std(4, 4, 1, 2), Std(5, 5, 1, 2), Std(0, 6, 5, 2), Std(5, 7, 2, 0)>>

\* After the reload: amend array 0, then the source, then abandon the source
ScrollReloadA == Reload(<<Ortho(5, 9), Std(2, 0, 0, 5), Ortho(6, 8), Std(2, 2, 0, 6),
                          Std(9, 0, 0, 2), Std(7, 0, 0, 0)>>)

\* After the reload: amend the source, then array 0
ScrollReloadB == Reload(<<Ortho(5, 9), Std(2, 2, 0, 5), Ortho(6, 8), Std(2, 0, 0, 6),
                          Std(7, 0, 0, 0)>>)

\* After the reload: abandon the source, then amend array 0
ScrollReloadC == Reload(<<Std(9, 0, 0, 2), Ortho(5, 9), Std(2, 0, 0, 5), Std(7, 0, 0, 0)>>)

\* After the reload: amend array 0 and halt
ScrollReloadD == Reload(<<Std(2, 0, 0, 3), Std(7, 0, 0, 0)>>)

\* Array Index of an id that was never allocated
ScrollIndexUnknown == <<Ortho(1, 5), Std(1, 2, 1, 0), Std(7, 0, 0, 0)>>

\* Array Index of array 0 past its end
ScrollIndexPast == <<Ortho(1, 9), Std(1, 2, 0, 1), Std(7, 0, 0, 0)>>

\* Array Amendment of an id that was never allocated
ScrollAmendUnknown == <<Ortho(1, 5), Std(2, 1, 0, 1), Std(7, 0, 0, 0)>>

\* Array Amendment of array 0 past its end
ScrollAmendPast == <<Ortho(1, 9), Std(2, 0, 1, 1), Std(7, 0, 0, 0)>>

\* Load Program from an id that was never allocated
ScrollLoadUnknown == <<Ortho(1, 5), Std(12, 0, 1, 0), Std(7, 0, 0, 0)>>

\* After the reload: amend the source past its end while array 0 shares it
ScrollReloadPast == Reload(<<Ortho(5, 99), Std(2, 2, 5, 5), Std(7, 0, 0, 0)>>)

\* Amend array 0 at the offset after the Array Amendment: the Output there
\* becomes the Halt read from offset 5
ScrollAmendNext == <<Ortho(3, 5), Std(1, 2, 0, 3), Ortho(1, 4), Std(2, 0, 1, 2),
                     Std(10, 0, 0, 1), Std(7, 0, 0, 0)>>

\* Amend array 0 at the offset of the Array Amendment itself, then jump back to it
ScrollAmendSelf == <<Ortho(3, 5), Std(1, 2, 0, 3), Ortho(1, 3), Std(2, 0, 1, 2),
                     Std(12, 0, 0, 1), Std(7, 0, 0, 0)>>

\* After the reload (R4 holds the Halt copied last): amend array 0, which shares
\* the source's storage, at offset 18, where an Output stands
ScrollAmendShared == Reload(<<Ortho(5, 18), Std(2, 0, 5, 4), Std(10, 0, 0, 0),
                              Std(7, 0, 0, 0)>>)

\* Allocation with B = C: R1 holds the length 3, then the id; then Array Index
\* at offset 1, and at offset 3
ScrollAllocSame == <<Ortho(1, 3), Std(8, 0, 1, 1), Std(1, 2, 1, 1), Ortho(3, 3),
                     Std(1, 4, 1, 3), Std(7, 0, 0, 0)>>

\* Allocation of length 0, then Array Index of the new array
ScrollEmptyIndex == <<Std(8, 0, 1, 0), Std(1, 2, 1, 0), Std(7, 0, 0, 0)>>

\* Allocation of length 0, then Array Amendment of the new array
ScrollEmptyAmend == <<Std(8, 0, 1, 0), Std(2, 1, 0, 0), Std(7, 0, 0, 0)>>

\* Allocation of length 0, then Abandonment of the new array
ScrollEmptyFree == <<Std(8, 0, 1, 0), Std(9, 0, 0, 1), Std(7, 0, 0, 0)>>

\* R3 = 32768 * 65536 = 0x80000000, then R4 = R3 * 2 and R5 = R3 + R3
ScrollMulWrap == <<Ortho(1, 32768), Ortho(2, 65536), Std(4, 3, 1, 2), Ortho(2, 2),
                   Std(4, 4, 3, 2), Std(3, 5, 3, 3), Std(7, 0, 0, 0)>>

\* Orthography of the largest immediate, NotAnd and a Conditional Move whose
\* condition is 0 on it, an Output whose unused fields are set, and opcode 14
ScrollOrthoMax == <<Ortho(5, 33554431), Std(6, 1, 5, 0), Std(0, 2, 5, 0), Std(6, 3, 5, 1),
                    Std(10, 7, 7, 0), Std(14, 0, 0, 0)>>

\* Opcode 15, with other bits set
ScrollOpFifteen == <<Ortho(1, 1), <<15 * 4096 + 5, 77>>>>

Scrolls == {ScrollOrthoMax, ScrollOpFifteen, ScrollMulWrap, ScrollAllocSame, ScrollEmptyIndex, ScrollEmptyAmend, ScrollEmptyFree,
            ScrollAmendNext, ScrollAmendSelf, ScrollAmendShared, ScrollHalt, ScrollHello, ScrollOutBig, ScrollEcho, ScrollJump, ScrollSpin,
            ScrollFreeZero, ScrollFreeUnknown, ScrollAlloc, ScrollArith,
            ScrollReloadA, ScrollReloadB, ScrollReloadC, ScrollReloadD,
            ScrollIndexUnknown, ScrollIndexPast, ScrollAmendUnknown, ScrollAmendPast,
            ScrollLoadUnknown, ScrollReloadPast}

\* Bounds of the model
MaxInput == 1

MaxBound == 6

MaxCalls == 2

MaxArrayLen == 32

InputBytes == {7, 200}

RECURSIVE SeqsUpTo(_, _)
SeqsUpTo(S, n) ==
    IF n = 0 THEN {<<>>}
    ELSE SeqsUpTo(S, n - 1) \cup
         {Append(q, x) : q \in {t \in SeqsUpTo(S, n - 1) : Len(t) = n - 1}, x \in S}

Inputs == SeqsUpTo(InputBytes, MaxInput)

\* The step bounds run is called with
RunBounds == {None} \cup {Some(n) : n \in 0 .. MaxBound}

-----------------------------------------------------------------------------
(* The state machine *)

Install(m) ==
    /\ registers' = m.registers
    /\ ip' = m.ip
    /\ next_array_id' = m.next_array_id
    /\ arrays' = m.arrays
    /\ store' = m.store
    /\ is_halted' = m.is_halted
    /\ input' = m.input
    /\ output' = m.output
    /\ panicked' = m.panicked

machine == <<registers, ip, next_array_id, arrays, store, is_halted,
             input, output, panicked>>

\* No platter has been written to array 0
NoneWritten == [k \in {} |-> Zero]

\* The platters amended into array 0, by offset, since array 0 was last
\* replaced as a whole: w before an iteration that ran cmd on pre and left post
WrittenAfter(w, pre, cmd, post) ==
    IF post.panicked THEN w
    ELSE CASE cmd.op = "ArrStore" /\ pre.registers[cmd.arr] = Zero ->
                [k \in DOMAIN w \cup {pre.registers[cmd.offset][2]} |->
                    IF k = pre.registers[cmd.offset][2]
                    THEN pre.registers[cmd.src] ELSE w[k]]
           [] cmd.op = "LoadProg" /\ pre.registers[cmd.arr] # Zero -> NoneWritten
           [] cmd.op = "Alloc" /\ pre.next_array_id = Zero -> NoneWritten
           [] cmd.op = "Free" /\ pre.registers[cmd.arr] = Zero -> NoneWritten
           [] OTHER -> w

\* The ids returned by the Allocations so far: a before an iteration that ran
\* cmd and left post
AllocatedAfter(a, cmd, post) ==
    IF cmd.op = "Alloc" /\ ~post.panicked THEN Append(a, post.registers[cmd.dst])
    ELSE a

Start(m, oc, bytes) ==
    /\ registers = m.registers
    /\ ip = m.ip
    /\ next_array_id = m.next_array_id
    /\ arrays = m.arrays
    /\ store = m.store
    /\ is_halted = m.is_halted
    /\ input = m.input
    /\ output = m.output
    /\ panicked = m.panicked
    /\ pc = "idle"
    /\ step = Zero
    /\ max_steps = Zero
    /\ overflow_checks = oc
    /\ last = [ran |-> FALSE, cmd |-> [op |-> "Unreachable"], pre |-> m,
               written |-> NoneWritten]
    /\ calls = <<>>
    /\ um0 = m
    /\ program_bytes = bytes
    /\ written = NoneWritten
    /\ allocated = <<>>

\* The machine as new builds it from a scroll
Init ==
    \E sc \in Scrolls, inp \in Inputs, oc \in BOOLEAN :
        /\ new(ScrollBytes(sc), inp).some
        /\ Start(new(ScrollBytes(sc), inp).val, oc, ScrollBytes(sc))

\* The host calls um.run(ms)
Call(ms) ==
    /\ pc = "idle"
    /\ ~panicked
    /\ Len(calls) < MaxCalls
    /\ pc' = "running"
    /\ step' = Zero
    /\ max_steps' = unwrap_or_max(ms)
    /\ calls' = Append(calls, [bound |-> ms, entry |-> UM])
    /\ UNCHANGED <<machine, overflow_checks, last, um0, program_bytes, written, allocated>>

\* An Allocation the model can hold
WithinModel(m) ==
    Fetched(m).op = "Alloc" =>
        /\ m.registers[Fetched(m).size][1] = 0
        /\ m.registers[Fetched(m).size][2] <= MaxArrayLen

\* One iteration of the loop
Iterate ==
    /\ pc = "running"
    /\ ~panicked
    /\ LoopCond(is_halted, step, max_steps)
    /\ WithinModel(UM)
    /\ Iteration(UM) # UM
    /\ Install(Iteration(UM))
    /\ step' = IF Fetched(UM).op = "Unreachable" THEN step
               ELSE wrapping_add(step, FromNat(1))
    /\ last' = [ran |-> TRUE, cmd |-> Fetched(UM), pre |-> UM, written |-> written]
    /\ written' = WrittenAfter(written, UM, Fetched(UM), Iteration(UM))
    /\ allocated' = AllocatedAfter(allocated, Fetched(UM), Iteration(UM))
    /\ UNCHANGED <<pc, max_steps, overflow_checks, calls, um0, program_bytes>>

\* The iterations of the loop on a machine that an iteration leaves as it is
\* (a Load Program of array 0 to its own offset): they repeat until step
\* reaches max_steps.
Spin ==
    /\ pc = "running"
    /\ ~panicked
    /\ LoopCond(is_halted, step, max_steps)
    /\ Iteration(UM) = UM
    /\ step' = max_steps
    /\ last' = [ran |-> TRUE, cmd |-> Fetched(UM), pre |-> UM, written |-> written]
    /\ written' = WrittenAfter(written, UM, Fetched(UM), Iteration(UM))
    /\ allocated' = AllocatedAfter(allocated, Fetched(UM), Iteration(UM))
    /\ UNCHANGED <<machine, pc, max_steps, overflow_checks, calls, um0, program_bytes>>

\* The loop condition fails and run returns
Return ==
    /\ pc = "running"
    /\ ~panicked
    /\ ~LoopCond(is_halted, step, max_steps)
    /\ pc' = "idle"
    /\ UNCHANGED <<machine, step, max_steps, overflow_checks, last, calls, um0,
                   program_bytes, written, allocated>>

Next ==
    \/ \E ms \in RunBounds : Call(ms)
    \/ Iterate
    \/ Spin
    \/ Return

Spec == Init /\ [][Next]_vars

\* The machine after a scroll has allocated and abandoned 2^32 - 2 arrays,
\* cleared its registers and jumped to offset 0: the id counter stands at
\* u32::MAX, one Allocation away from the end of the 32-bit ids.
InitLate ==
    \E sc \in Scrolls, inp \in Inputs, oc \in BOOLEAN :
        /\ new(ScrollBytes(sc), inp).some
        /\ Start([new(ScrollBytes(sc), inp).val EXCEPT !.next_array_id = U32Max], oc,
                 ScrollBytes(sc))

SpecLate == InitLate /\ [][Next]_vars

\* The byte streams new is given: scrolls, whole and cut short at every length
ByteStreams ==
    UNION {{SubSeq(ScrollBytes(sc), 1, n) : n \in 0 .. Len(ScrollBytes(sc))} :
              sc \in {ScrollHello, ScrollJump, ScrollSpin}}

\* new returned None: there is no machine to run
NoMachine ==
    [registers |-> [r \in RegId |-> Zero], ip |-> Zero, next_array_id |-> Zero,
     arrays |-> NoneWritten, store |-> <<>>, is_halted |-> FALSE,
     input |-> <<>>, output |-> <<>>, panicked |-> FALSE]

\* new on any byte stream: the machine it builds, or none
InitNew ==
    \E bytes \in ByteStreams, inp \in Inputs, oc \in BOOLEAN :
        IF new(bytes, inp).some
        THEN Start(new(bytes, inp).val, oc, bytes)
        ELSE /\ registers = NoMachine.registers
             /\ ip = NoMachine.ip
             /\ next_array_id = NoMachine.next_array_id
             /\ arrays = NoMachine.arrays
             /\ store = NoMachine.store
             /\ is_halted = NoMachine.is_halted
             /\ input = NoMachine.input
             /\ output = NoMachine.output
             /\ panicked = NoMachine.panicked
             /\ pc = "unbuilt"
             /\ step = Zero
             /\ max_steps = Zero
             /\ overflow_checks = oc
             /\ last = [ran |-> FALSE, cmd |-> [op |-> "Unreachable"], pre |-> NoMachine,
                        written |-> NoneWritten]
             /\ calls = <<>>
             /\ um0 = NoMachine
             /\ program_bytes = bytes
             /\ written = NoneWritten
             /\ allocated = <<>>

SpecNew == InitNew /\ [][Next]_vars

-----------------------------------------------------------------------------
(* Properties.  last holds the command of the latest iteration and the      *)
(* machine it ran on (pre), so a property of one instruction is a state      *)
(* predicate over pre and the machine as it stands now.                      *)

Pre == last.pre

Ran(op) == last.ran /\ last.cmd.op = op

LastCall == calls[Len(calls)]

\* C1: after a Load Program from a source s other than 0, array 0 and array s
\* are independent: an Array Amendment to array 0 leaves every other array's
\* contents as they were, an Array Amendment to an array s other than 0 leaves
\* array 0's contents as they were, and an Abandonment of s other than 0 leaves
\* array 0 present with its contents as they were.
C1_LoadedArraysIndependent ==
    /\ (Ran("ArrStore") /\ ~panicked) =>
          LET t == Pre.registers[last.cmd.arr]
          IN  \A k \in DOMAIN Pre.arrays :
                 (k # t /\ (t = Zero \/ k = Zero)) =>
                     /\ k \in DOMAIN arrays
                     /\ Contents(UM, k) = Contents(Pre, k)
    /\ (Ran("Free") /\ ~panicked /\ Pre.registers[last.cmd.arr] # Zero
          /\ Zero \in DOMAIN Pre.arrays) =>
          /\ Zero \in DOMAIN arrays
          /\ Contents(UM, Zero) = Contents(Pre, Zero)

\* An Array Amendment has written to array 0 while it shared its storage with
\* the source of a Load Program, and the two now differ.
C1_Witness ==
    /\ Ran("ArrStore")
    /\ ~panicked
    /\ Pre.registers[last.cmd.arr] = Zero
    /\ \E s \in DOMAIN Pre.arrays :
          /\ s # Zero
          /\ Pre.arrays[s] = Pre.arrays[Zero]
          /\ s \in DOMAIN arrays
          /\ Contents(UM, s) # Contents(UM, Zero)

\* C2: Load Program with R[B] = 0 only assigns ip: the live ids, every array's
\* contents and the registers are as before, and ip is R[C].
C2_LoadProgZeroIsJump ==
    (Ran("LoadProg") /\ Pre.registers[last.cmd.arr] = Zero) =>
        /\ ~panicked
        /\ DOMAIN arrays = DOMAIN Pre.arrays
        /\ \A k \in DOMAIN arrays : Contents(UM, k) = Contents(Pre, k)
        /\ registers = Pre.registers
        /\ ip = Pre.registers[last.cmd.offset]

\* A Load Program with R[B] = 0 has moved ip somewhere else than the next offset.
C2_Witness ==
    /\ Ran("LoadProg")
    /\ Pre.registers[last.cmd.arr] = Zero
    /\ ip # Pre.ip
    /\ ip # wrapping_add(Pre.ip, FromNat(1))

\* The calls made so far all had a step bound
AllBounded == \A i \in DOMAIN calls : calls[i].bound.some

RECURSIVE SumBounds(_)
SumBounds(cs) ==
    IF cs = <<>> THEN 0 ELSE Head(cs).bound.val[2] + SumBounds(Tail(cs))

\* C3: run(Some(n)) followed by run(Some(m)) leaves the machine (registers, ip,
\* heap, id counter, halted flag, input left and output) as one run(Some(n + m))
\* does, and the halted flag a run returns with is the one its instructions
\* left: set at entry, or set by a Halt that was the last instruction executed.
C3_ResumeIsExact ==
    ((pc = "idle" \/ panicked) /\ calls # <<>> /\ AllBounded) =>
        /\ UM = run(um0, Some(SumBounds(calls)))
        /\ pc = "idle" =>
              (is_halted <=> (LastCall.entry.is_halted \/ Ran("Halt")))

\* Two step-bounded runs have returned, each reached its bound, and the machine
\* is still running.
C3_Witness ==
    /\ pc = "idle"
    /\ Len(calls) = 2
    /\ AllBounded
    /\ calls[1].bound.val # Zero
    /\ calls[2].bound.val # Zero
    /\ calls[2].entry # um0
    /\ UM # calls[2].entry
    /\ ~is_halted

\* C4: a run with no step bound returns, if no fault occurs, only with the
\* halted flag set.
C4_UnboundedRunEndsHalted ==
    (pc = "idle" /\ calls # <<>> /\ ~LastCall.bound.some /\ ~panicked) => is_halted

\* C5: an Allocation either faults or returns an id that is not 0 and was not
\* a key of the heap before it.
C5_AllocReturnsFreshId ==
    Ran("Alloc") =>
        \/ panicked
        \/ /\ registers[last.cmd.dst] # Zero
           /\ registers[last.cmd.dst] \notin DOMAIN Pre.arrays

\* C6: an Abandonment of id 0 or of an id that is not live is a fault that
\* removes no array.
C6_BadFreeFaults ==
    (Ran("Free") /\ (Pre.registers[last.cmd.arr] = Zero
                       \/ Pre.registers[last.cmd.arr] \notin DOMAIN Pre.arrays)) =>
        /\ panicked
        /\ arrays = Pre.arrays

\* C7: while the machine has not faulted, id 0 is a key of the heap.
C7_ArrayZeroLive == ~panicked => Zero \in DOMAIN arrays

\* C8: an Output of a value above 255 is a fault that emits nothing; an Output
\* of a value up to 255 emits exactly that byte.
C8_OutputChecksRange ==
    Ran("Output") =>
        IF PlateLT(FromNat(255), Pre.registers[last.cmd.src])
        THEN panicked /\ output = Pre.output
        ELSE ~panicked /\ output = Append(Pre.output, Pre.registers[last.cmd.src][2])

\* C9: an Input at the end of the stream is no fault and writes 0xFFFFFFFF, and
\* the stream stays at its end; an Input of a byte b writes b.
C9_InputAtEndIsSentinel ==
    Ran("Input") =>
        IF Pre.input = <<>>
        THEN ~panicked /\ registers[last.cmd.dst] = U32Max /\ input = <<>>
        ELSE ~panicked /\ registers[last.cmd.dst] = <<0, Head(Pre.input)>>

\* C10: once the halted flag is set it stays set, and nothing the host does
\* then (any call of run, the loop, the return) changes the registers, ip, the
\* heap or the id counter, or reads input or writes output.
C10_HaltedIsFinal ==
    [][is_halted => (is_halted' /\ machine' = machine)]_vars

\* run was called on a halted machine and has returned.
C10_Witness ==
    /\ pc = "idle"
    /\ calls # <<>>
    /\ LastCall.entry.is_halted
    /\ is_halted

\* C11: a Division by R[C] = 0 is a fault and not a halt: the halted flag stays
\* false, no register is written, and it is the last instruction executed (the
\* machine stays as the Division found it, but for the fault).
C11_DivByZeroFaults ==
    (Ran("Div") /\ Pre.registers[last.cmd.op2] = Zero) =>
        /\ panicked
        /\ ~is_halted
        /\ registers = Pre.registers
        /\ UM = Panic(Pre)

\* A Division by zero has been executed, with a nonzero dividend.
C11_Witness ==
    /\ Ran("Div")
    /\ Pre.registers[last.cmd.op2] = Zero
    /\ Pre.registers[last.cmd.op1] # Zero

\* Machine m has no cell at offset off of array id
NoCell(m, id, off) ==
    id \notin DOMAIN m.arrays \/ ~InBounds(off, Contents(m, id))

\* C12: an Array Index or Array Amendment of an id that is not live or of an
\* offset at or past the array's length, and a Load Program from an id that is
\* not live, are faults that leave the registers, ip, the live ids and every
\* array's contents as they were.
C12_MissingCellFaults ==
    (\/ /\ last.ran
        /\ last.cmd.op \in {"ArrLoad", "ArrStore"}
        /\ NoCell(Pre, Pre.registers[last.cmd.arr], Pre.registers[last.cmd.offset])
     \/ /\ Ran("LoadProg")
        /\ Pre.registers[last.cmd.arr] \notin DOMAIN Pre.arrays) =>
        /\ panicked
        /\ registers = Pre.registers
        /\ ip = Pre.ip
        /\ DOMAIN arrays = DOMAIN Pre.arrays
        /\ \A k \in DOMAIN arrays : Contents(UM, k) = Contents(Pre, k)

\* An Array Amendment past the end of an array that shares its storage with
\* array 0 has been executed.
C12_Witness ==
    /\ Ran("ArrStore")
    /\ Pre.registers[last.cmd.arr] \in DOMAIN Pre.arrays
    /\ Pre.registers[last.cmd.arr] # Zero
    /\ Pre.arrays[Pre.registers[last.cmd.arr]] = Pre.arrays[Zero]
    /\ ~InBounds(Pre.registers[last.cmd.offset], Contents(Pre, Pre.registers[last.cmd.arr]))

\* C13: new fails exactly when the length of the byte stream is not a multiple
\* of 4; otherwise the machine it builds has array 0 alone, of length len / 4
\* with element i the big-endian value of bytes 4i .. 4i + 3, eight registers
\* of 0, ip 0, next id 1 and the halted flag false.
C13_NewBuildsFromBytes ==
    /\ pc = "unbuilt" <=> Len(program_bytes) % 4 # 0
    /\ (pc = "idle" /\ calls = <<>>) =>
          /\ DOMAIN arrays = {Zero}
          /\ Len(Contents(UM, Zero)) = Len(program_bytes) \div 4
          /\ \A i \in 1 .. Len(program_bytes) \div 4 :
                Contents(UM, Zero)[i] =
                    <<program_bytes[4 * i - 3] * 256 + program_bytes[4 * i - 2],
                      program_bytes[4 * i - 1] * 256 + program_bytes[4 * i]>>
          /\ registers = [r \in 0 .. 7 |-> Zero]
          /\ ip = Zero
          /\ next_array_id = <<0, 1>>
          /\ ~is_halted
          /\ ~panicked

\* new was given more than one platter's worth of bytes with a short last
\* chunk, and built nothing.
C13_Witness ==
    /\ pc = "unbuilt"
    /\ Len(program_bytes) > 4

\* C14: after every executed instruction other than Load Program (Halt and a
\* Conditional Move whose condition is 0 included) ip is exactly one more than
\* before it; after Load Program ip is R[C] as read before the instruction.
C14_IpAdvance ==
    (last.ran /\ ~panicked) =>
        IF last.cmd.op = "LoadProg"
        THEN ip = Pre.registers[last.cmd.offset]
        ELSE Pre.ip # U32Max /\ ip = wrapping_add(Pre.ip, FromNat(1))

\* A Load Program has jumped to an offset that is neither 0 nor the one after
\* the instruction.
C14_Witness ==
    /\ Ran("LoadProg") /\ ~panicked
    /\ Pre.registers[last.cmd.offset] \notin {Zero, wrapping_add(Pre.ip, FromNat(1))}
    /\ ip = Pre.registers[last.cmd.offset]

\* C15: every fetch decodes the current content of array 0 at ip: once an
\* Array Amendment has written a platter to array 0 at offset k (k = ip and
\* k = ip + 1 included, and also while array 0 shares storage after a Load
\* Program), the instruction executed next at offset k is the decoding of the
\* platter written last, and the machine after it is that instruction's effect.
C15_AmendedCodeIsFetched ==
    (last.ran /\ Pre.ip[1] = 0 /\ Pre.ip[2] \in DOMAIN last.written) =>
        /\ last.cmd = decode(last.written[Pre.ip[2]])
        /\ (last.cmd.op = "Halt" => is_halted /\ output = Pre.output)

\* The Halt written over an Output of array 0, loaded from array 1 and sharing
\* its storage until then, has been executed: array 1 still holds the Output.
C15_Witness ==
    /\ Ran("Halt") /\ is_halted
    /\ Pre.ip[2] \in DOMAIN last.written
    /\ FromNat(1) \in DOMAIN arrays
    /\ InBounds(Pre.ip, Contents(UM, FromNat(1)))
    /\ decode(At(Contents(UM, FromNat(1)), Pre.ip)).op = "Output"

\* C16: an Allocation of length n = R[C], read before R[B] is written (also
\* when B = C), creates an array of which every offset below n reads 0 and every
\* offset from n on is a fault; with n = 0 it succeeds too, the id it returns is
\* live and can be abandoned, and every Array Index or Amendment on it faults.
C16_AllocLengthAndZeroFill ==
    /\ (Ran("Alloc") /\ PlateLT(Pre.next_array_id, U32Max)) => ~panicked
    /\ (Ran("Alloc") /\ ~panicked) =>
          /\ registers[last.cmd.dst] \in DOMAIN arrays
          /\ <<0, Len(Contents(UM, registers[last.cmd.dst]))>> = Pre.registers[last.cmd.size]
          /\ \A i \in DOMAIN Contents(UM, registers[last.cmd.dst]) :
                Contents(UM, registers[last.cmd.dst])[i] = Zero
    /\ (/\ last.ran /\ last.cmd.op \in {"ArrLoad", "ArrStore"}
        /\ Pre.registers[last.cmd.arr] \in DOMAIN Pre.arrays) =>
          IF InBounds(Pre.registers[last.cmd.offset],
                      Contents(Pre, Pre.registers[last.cmd.arr]))
          THEN /\ ~panicked
               /\ last.cmd.op = "ArrLoad" =>
                     registers[last.cmd.dst] =
                         At(Contents(Pre, Pre.registers[last.cmd.arr]),
                            Pre.registers[last.cmd.offset])
          ELSE panicked
    /\ (/\ Ran("Free") /\ Pre.registers[last.cmd.arr] # Zero
        /\ Pre.registers[last.cmd.arr] \in DOMAIN Pre.arrays) =>
          /\ ~panicked
          /\ DOMAIN arrays = DOMAIN Pre.arrays \ {Pre.registers[last.cmd.arr]}

\* An Allocation whose destination and size register are the same has created
\* an array of the length the register held, 3, and put the id there.
C16_Witness ==
    /\ Ran("Alloc") /\ ~panicked
    /\ last.cmd.dst = last.cmd.size
    /\ Pre.registers[last.cmd.size] = FromNat(3)
    /\ registers[last.cmd.dst] = FromNat(1)
    /\ Contents(UM, FromNat(1)) = <<Zero, Zero, Zero>>

\* C17: the ids returned by successive Allocations over the whole run are
\* strictly increasing, starting at 1 on a machine fresh from new, so that no
\* Allocation returns an id an earlier one returned, abandoned since or not.
C17_AllocIdsStrictlyIncrease ==
    /\ \A i \in 1 .. Len(allocated) - 1 : PlateLT(allocated[i], allocated[i + 1])
    /\ \A i \in 1 .. Len(allocated) : allocated[i] # Zero
    /\ (allocated # <<>> /\ um0.next_array_id = FromNat(1)) => allocated[1] = FromNat(1)

\* C18: no instruction changes the length of an allocated array: every id
\* other than 0 that is live before and after an iteration, and is not the id
\* an Allocation has just returned, names an array of the same length as
\* before, whether an Array Amendment wrote in place or through a copy, and
\* whichever array a Load Program loaded.
C18_LengthsKept ==
    last.ran =>
        \A k \in (DOMAIN Pre.arrays \cap DOMAIN arrays) \ {Zero} :
            (Ran("Alloc") /\ ~panicked /\ registers[last.cmd.dst] = k)
            \/ Len(Contents(UM, k)) = Len(Contents(Pre, k))

\* An Array Amendment of array 1, which shared its storage with array 0, has
\* gone through the copy: the two arrays differ and have the same length still.
C18_Witness ==
    /\ Ran("ArrStore") /\ ~panicked
    /\ Pre.registers[last.cmd.arr] = FromNat(1)
    /\ Pre.arrays[FromNat(1)] = Pre.arrays[Zero]
    /\ arrays[FromNat(1)] # arrays[Zero]
    /\ Contents(UM, FromNat(1)) # Contents(UM, Zero)
    /\ Len(Contents(UM, FromNat(1))) = Len(Contents(Pre, FromNat(1)))

\* C19: Addition and Multiplication never fault and write the sum and the
\* product of R[B] and R[C] modulo 2^32 to R[A], whatever the operands:
\* 0xFFFFFFFF + 1 is 0 and 0x80000000 * 2 is 0, operands whose sum or product
\* is below 2^30 give that number, and every register stays within 32 bits.
C19_AddMulModulo ==
    /\ \A r \in 0 .. 7 : registers[r][1] \in 0 .. W16 - 1 /\ registers[r][2] \in 0 .. W16 - 1
    /\ (last.ran /\ last.cmd.op \in {"Add", "Mul"}) =>
          LET a == Pre.registers[last.cmd.op1]
              b == Pre.registers[last.cmd.op2]
              r == registers[last.cmd.dst]
          IN  /\ ~panicked
              /\ \A q \in 0 .. 7 : q # last.cmd.dst => registers[q] = Pre.registers[q]
              /\ last.cmd.op = "Add" =>
                    /\ r[2] = (a[2] + b[2]) % W16
                    /\ r[1] = (a[1] + b[1] + (a[2] + b[2]) \div W16) % W16
                    /\ (a = U32Max /\ b = FromNat(1)) => r = Zero
              /\ last.cmd.op = "Mul" =>
                    /\ r = wrapping_mul(a, b)
                    /\ (a[1] = 0 /\ b[1] = 0 /\ a[2] < 32768 /\ b[2] < 32768) =>
                          r = <<(a[2] * b[2]) \div W16, (a[2] * b[2]) % W16>>
                    /\ (b = FromNat(2) /\ a[1] < 32768) =>
                          r = <<2 * a[1] + (2 * a[2]) \div W16, (2 * a[2]) % W16>>
                    /\ (a = <<32768, 0>> /\ b = FromNat(2)) => r = Zero
                    /\ (a = U32Max /\ b = FromNat(3)) => r = <<65535, 65533>>

\* 0x80000000 has been multiplied by 2 and the register holds 0.
C19_Witness ==
    /\ Ran("Mul") /\ ~panicked
    /\ Pre.registers[last.cmd.op1] = <<32768, 0>>
    /\ Pre.registers[last.cmd.op2] = FromNat(2)
    /\ registers[last.cmd.dst] = Zero

\* C20: a platter p with opcode (p >> 28) & 15 in 0 .. 13 is executed as the
\* instruction of that opcode with A = (p >> 6) & 7, B = (p >> 3) & 7 and
\* C = p & 7 in the roles of the table (Array Amendment writes R[C] to
\* heap[R[A]][R[B]], Allocation has B as destination and C as size, Load
\* Program B as source and C as offset); for opcode 13 register (p >> 25) & 7
\* receives p & 0x1FFFFFF, so immediate 0x1FFFFFF gives 0x01FFFFFF; opcodes 14
\* and 15 are a fault.
C20_DecoderFields ==
    (last.ran /\ CanFetch(Pre)) =>
        LET p  == At(Contents(Pre, Zero), Pre.ip)
            op == p[1] \div 4096
            A  == (p[2] \div 64) % 8
            B  == (p[2] \div 8) % 8
            C  == p[2] % 8
            R  == Pre.registers
        IN  /\ op \in {14, 15} => panicked /\ UM = Panic(Pre)
            /\ ~panicked =>
                CASE op = 0 -> registers = IF R[C] # Zero THEN [R EXCEPT ![A] = R[B]] ELSE R
                  [] op = 1 -> registers = [R EXCEPT ![A] = At(Contents(Pre, R[B]), R[C])]
                  [] op = 2 -> At(Contents(UM, R[A]), R[B]) = R[C] /\ registers = R
                  [] op = 3 -> registers = [R EXCEPT ![A] = wrapping_add(R[B], R[C])]
                  [] op = 4 -> registers = [R EXCEPT ![A] = wrapping_mul(R[B], R[C])]
                  [] op = 5 -> registers = [R EXCEPT ![A] = div(R[B], R[C])]
                  [] op = 6 -> registers = [R EXCEPT ![A] = not(bitand(R[B], R[C]))]
                  [] op = 7 -> is_halted /\ registers = R
                  [] op = 8 -> /\ registers = [R EXCEPT ![B] = Pre.next_array_id]
                               /\ Len(Contents(UM, registers[B])) = R[C][2]
                  [] op = 9 -> DOMAIN arrays = DOMAIN Pre.arrays \ {R[C]} /\ registers = R
                  [] op = 10 -> output = Append(Pre.output, R[C][2] % 256) /\ registers = R
                  [] op = 11 -> /\ registers = [R EXCEPT ![C] = FromNat(Head(Pre.input))]
                                /\ input = Tail(Pre.input)
                  [] op = 12 -> /\ ip = R[C]
                                /\ Contents(UM, Zero) = Contents(Pre, R[B])
                                /\ registers = R
                  [] op = 13 -> /\ registers = [R EXCEPT ![(p[1] \div 512) % 8] =
                                                   <<p[1] % 512, p[2]>>]
                                /\ (p[1] % 512 = 511 /\ p[2] = 65535) =>
                                      registers[(p[1] \div 512) % 8] = <<511, 65535>>

\* The Orthography platter 0xDBFFFFFF has been executed: R5 holds 0x01FFFFFF.
C20_Witness ==
    /\ Ran("StoreConst") /\ CanFetch(Pre)
    /\ At(Contents(Pre, Zero), Pre.ip) = <<13 * 4096 + 5 * 512 + 511, 65535>>
    /\ registers[5] = <<511, 65535>>
    /\ Pre.registers[5] = Zero

====
